---- MODULE Spec2Model ----
(***************************************************************************)
(* Chunked file-transfer service: chunk bookkeeping, completion detection, *)
(* assembly, range reads and reclamation, as implemented in storage.py,    *)
(* main.py, background.py and utils.py.                                    *)
(*                                                                         *)
(* Time is counted in ticks of one hour.  Handlers contain no real         *)
(* suspension point after the request body has been read (every await is   *)
(* on a coroutine that never yields to the event loop), so each handler is *)
(* one atomic action of the single-threaded event loop.                    *)
(***************************************************************************)
EXTENDS Integers, Sequences, FiniteSets, TLC

\* upload_tracker  storage.upload_tracker: file_id -> session record
\* key_order       the insertion order of upload_tracker's keys (the order
\*                 in which list(upload_tracker.items()) yields them)
\* chunk_dir       the files of CHUNK_DIR: path -> content
\* upload_dir      the files of UPLOAD_DIR: path -> content
\* delivered       history: for each session, the payload that came with
\*                 each of its chunk records (the program keeps it only in
\*                 the chunk file, which is overwritten and deleted)
\* now             datetime.now(), in ticks
\* wake_at         the time the sleep of periodic_cleanup ends (None once
\*                 the task has died of an exception)
\* last            the last request handled and its response
\* task            the coroutines of the event loop that are under way, each
\*                 with its position and its local variables
\* running         the coroutine the event loop is executing (NoTask when
\*                 every coroutine is suspended or finished)
VARIABLES upload_tracker, key_order, chunk_dir, upload_dir, delivered,
          now, wake_at, last, task, running

vars == <<upload_tracker, key_order, chunk_dir, upload_dir, delivered,
          now, wake_at, last, task, running>>

(* ------------------------------ bounds --------------------------------- *)
MaxOffset == 1
MaxLen == 2
MaxChunks == 2
SmallMaxChunks == 2
WholeMaxChunks == 1
MaxTime == 2

(* ------------------------- program constants --------------------------- *)
\* timedelta(hours=1), in ticks
STALE_THRESHOLD == 1
\* asyncio.sleep(3600), in ticks
SLEEP_TICKS == 1
\* minimum header size of a chunk body
HEADER_SIZE == 12
\* block size of the range reader (4096 in the source, scaled to the
\* artifact sizes explored here so that multi-block reads happen)
BLOCK_SIZE == 2

\* Python's None where the program holds Optional[int] values (sizes, offsets
\* and timestamps are never negative), and the absent "status" key
None == -1
NoStatus == "none"
UPLOAD_DIR == "uploads"
CHUNK_DIR == "chunks"

(* ------------------------------ inputs --------------------------------- *)
FileIds == {"f1"}
OtherFileIds == {"f2"}
ByteVals == {1, 255}
Offsets == 0..MaxOffset
TotalSizes == {None} \cup (1..(MaxOffset + 1))
Payloads == UNION {[1..n -> ByteVals] : n \in 0..MaxLen}
HeaderBytes == {0, 1, 255}
Header(b) == [i \in 1..HEADER_SIZE |-> IF i = HEADER_SIZE THEN b ELSE 0]
\* the payload a well-behaved client sends for [s, e]: byte i of the file is
\* 1 at even offsets and 255 at odd offsets
FileByte(i) == IF i % 2 = 0 THEN 1 ELSE 255
GoodPayload(s, e) == [i \in 1..(e - s + 1) |-> FileByte(s + i - 1)]

(* ------------------------------ helpers -------------------------------- *)
EmptyFn == [x \in {} |-> 0]

Min(a, b) == IF a < b THEN a ELSE b

FnPut(fn, k, v) == [x \in (DOMAIN fn) \cup {k} |-> IF x = k THEN v ELSE fn[x]]

FnDel(fn, ks) == [x \in (DOMAIN fn) \ ks |-> fn[x]]

SeqDel(s, k) == SelectSeq(s, LAMBDA x : x # k)

Range(s) == {s[i] : i \in DOMAIN s}

\* sum(data) % 256
RECURSIVE SumBytes(_)
SumBytes(data) ==
    IF data = <<>> THEN 0 ELSE data[1] + SumBytes(Tail(data))

calculate_checksum_mod255(data) == SumBytes(data) % 255

calculate_checksum(data) == SumBytes(data) % 256

\* os.path.join(CHUNK_DIR, f"{file_id}_{start}_{end}.chunk")
ChunkPath(file_id, start, end) == <<CHUNK_DIR, file_id, start, end>>

\* os.path.join(UPLOAD_DIR, file_id)
OutputPath(file_id) == <<UPLOAD_DIR, file_id, "">>

\* os.path.join(UPLOAD_DIR, f"{file_id}.incomplete")
IncompletePath(file_id) == <<UPLOAD_DIR, file_id, ".incomplete">>

\* sum(c["end"] - c["start"] + 1 for c in chunks)
RECURSIVE SumLen(_)
SumLen(chunks) ==
    IF chunks = <<>> THEN 0
    ELSE (chunks[1].end - chunks[1].start + 1) + SumLen(Tail(chunks))

\* insertion of c into a list sorted by start, after every entry whose
\* start is <= c.start (sorted() is stable)
RECURSIVE InsertByStart(_, _)
InsertByStart(c, sorted) ==
    IF sorted = <<>> THEN <<c>>
    ELSE IF sorted[1].start <= c.start
         THEN <<sorted[1]>> \o InsertByStart(c, Tail(sorted))
         ELSE <<c>> \o sorted

RECURSIVE SortByStartFrom(_, _)
SortByStartFrom(chunks, acc) ==
    IF chunks = <<>> THEN acc
    ELSE SortByStartFrom(Tail(chunks), InsertByStart(chunks[1], acc))

ArrivalOrder(chunks) == chunks

\* sorted(chunks, key=lambda x: x["start"])
SortByStart(chunks) == SortByStartFrom(chunks, <<>>)

\* for chunk in chunks: open(chunk["path"], "rb") ... outfile.write(...)
\* ok = FALSE when an open raised FileNotFoundError; data is what had been
\* written to the output file by then
RECURSIVE ReadAll(_, _, _)
ReadAll(chunks, cdir, acc) ==
    IF chunks = <<>> THEN [data |-> acc, ok |-> TRUE]
    ELSE IF chunks[1].path \notin DOMAIN cdir
         THEN [data |-> acc, ok |-> FALSE]
         ELSE ReadAll(Tail(chunks), cdir, acc \o cdir[chunks[1].path])

\* for chunk in chunks: try: os.remove(chunk["path"]) except OSError: pass
RemoveChunks(chunks, cdir) == FnDel(cdir, {chunks[i].path : i \in DOMAIN chunks})

(* ------------------------------ storage.py ----------------------------- *)
\* The program state the storage functions work on, as one value:
\*   t  upload_tracker, o  its key (insertion) order,
\*   c  the chunk directory, u  the upload directory,
\*   d  the payloads delivered for the tracked chunks (history)
Store(t, o, c, u, d) == [t |-> t, o |-> o, c |-> c, u |-> u, d |-> d]

\* async def assemble_file(file_id); result is "True", "False" or the
\* exception raised
assemble_file(file_id, st) ==
    IF file_id \notin DOMAIN st.t
    THEN [st |-> st, result |-> "ValueError"]
    ELSE
    LET file_info == st.t[file_id]
        chunks == SortByStart(file_info.chunks)
        expected_size == file_info.total_size
        total_received == SumLen(chunks)
    IN  IF expected_size = None \/ total_received < expected_size
        THEN [st |-> st, result |-> "False"]
        ELSE
        LET rd == ReadAll(chunks, st.c, <<>>)
            written == FnPut(st.u, OutputPath(file_id), rd.data)
        IN  IF ~rd.ok
            THEN [st |-> [st EXCEPT !.u = written],
                  result |-> "FileNotFoundError"]
            ELSE [st |-> [st EXCEPT
                            !.u = written,
                            !.c = RemoveChunks(chunks, st.c),
                            !.t = [st.t EXCEPT ![file_id].status = "complete"]],
                  result |-> "True"]

\* the completion check of save_chunk on the raw sum of chunk lengths
NeedsAssembly(chunk_total_size, chunks) ==
    /\ chunk_total_size # None
    /\ SumLen(chunks) >= chunk_total_size

\* async def save_chunk(chunk), with chunk.timestamp = t
\* storage.py:21-45: the chunk file is written, the session created on its
\* first chunk, the chunk record appended
register_chunk(st, file_id, start_byte, end_byte, data, checksum, total_size, t) ==
    LET chunk_path == ChunkPath(file_id, start_byte, end_byte)
        c1 == FnPut(st.c, chunk_path, data)
        isNew == file_id \notin DOMAIN st.t
        t0 == IF isNew
              THEN FnPut(st.t, file_id,
                         [chunks |-> <<>>, total_size |-> total_size,
                          last_updated |-> t, status |-> NoStatus])
              ELSE st.t
        o1 == IF isNew THEN Append(st.o, file_id) ELSE st.o
        rec == [start |-> start_byte, end |-> end_byte, path |-> chunk_path,
                checksum |-> checksum, timestamp |-> t]
        t1 == [t0 EXCEPT ![file_id].chunks = Append(@, rec),
                         ![file_id].last_updated = t]
        d1 == IF isNew THEN FnPut(st.d, file_id, <<data>>)
              ELSE [st.d EXCEPT ![file_id] = Append(@, data)]
    IN  Store(t1, o1, c1, st.u, d1)

save_chunk(st, file_id, start_byte, end_byte, data, checksum, total_size, t) ==
    LET st1 == register_chunk(st, file_id, start_byte, end_byte, data, checksum, total_size, t)
        t1 == st1.t
    IN  IF NeedsAssembly(total_size, t1[file_id].chunks)
        THEN LET a == assemble_file(file_id, st1)
             IN  [st |-> a.st,
                  result |-> IF a.result \in {"True", "False"}
                             THEN "ok" ELSE a.result]
        ELSE [st |-> st1, result |-> "ok"]

\* what a failed write of data leaves at path: written = None when open()
\* raised (the directory is untouched), otherwise the number of bytes that
\* reached the file, which open(..., "wb") had created or truncated
AfterFailedWrite(cdir, path, data, written) ==
    IF written = None THEN cdir
    ELSE FnPut(cdir, path, SubSeq(data, 1, written))

save_chunk_registers_first(st, file_id, start_byte, end_byte, data, checksum, total_size, t, written) ==
    LET chunk_path == ChunkPath(file_id, start_byte, end_byte)
        ok == save_chunk(st, file_id, start_byte, end_byte, data, checksum,
                         None, t).st
    IN  [st |-> [ok EXCEPT !.c = AfterFailedWrite(st.c, chunk_path, data, written)],
         result |-> "OSError"]

\* async def save_chunk(chunk) when the write of the chunk file raises
\* OSError: the exception leaves save_chunk before the tracker is touched
save_chunk_write_fails(st, file_id, start_byte, end_byte, data, checksum, total_size, t, written) ==
    LET chunk_path == ChunkPath(file_id, start_byte, end_byte)
    IN  [st |-> [st EXCEPT !.c = AfterFailedWrite(st.c, chunk_path, data, written)],
         result |-> "OSError"]

MaxEndPlusOne(chunks) ==
    LET ends == {chunks[i].end : i \in DOMAIN chunks}
    IN  (CHOOSE m \in ends : \A x \in ends : x <= m) + 1

\* async def get_file_status(file_id)
get_file_status(t, file_id) ==
    IF file_id \notin DOMAIN t
    THEN [file_id |-> file_id, status |-> "not_found", received_bytes |-> 0,
          total_bytes |-> None, last_updated |-> None, next_byte |-> None,
          chunks |-> <<>>]
    ELSE
    LET file_info == t[file_id]
        chunks == file_info.chunks
    IN  [file_id |-> file_id,
         status |-> IF file_info.status = "complete" THEN "complete"
                    ELSE IF chunks # <<>> THEN "partial" ELSE "pending",
         received_bytes |-> SumLen(chunks),
         total_bytes |-> file_info.total_size,
         last_updated |-> file_info.last_updated,
         next_byte |-> IF chunks # <<>> THEN MaxEndPlusOne(chunks) ELSE 0,
         chunks |-> [i \in DOMAIN chunks |->
                        [start |-> chunks[i].start, end |-> chunks[i].end]]]

\* chunk["timestamp"] > threshold, threshold = now - STALE_THRESHOLD
IsRecent(chunk, t) == chunk.timestamp > t - STALE_THRESHOLD

HasRecentAll(chunks, t) == \A i \in DOMAIN chunks : IsRecent(chunks[i], t)

\* any(chunk["timestamp"] > threshold for chunk in file_info["chunks"])
HasRecent(chunks, t) == \E i \in DOMAIN chunks : IsRecent(chunks[i], t)

CleanupOneAnyStatus(st, file_id, t) ==
    LET file_info == st.t[file_id]
    IN  IF HasRecent(file_info.chunks, t) THEN st
        ELSE [st EXCEPT !.c = RemoveChunks(file_info.chunks, st.c),
                        !.t = FnDel(st.t, {file_id}),
                        !.o = SeqDel(st.o, file_id),
                        !.d = FnDel(st.d, {file_id})]

\* the body of the loop of cleanup_stale_chunks for one tracker item
CleanupOne(st, file_id, t) ==
    LET file_info == st.t[file_id]
    IN  IF file_info.status = "complete" THEN st
        ELSE IF HasRecent(file_info.chunks, t) THEN st
        ELSE [st EXCEPT !.c = RemoveChunks(file_info.chunks, st.c),
                        !.t = FnDel(st.t, {file_id}),
                        !.o = SeqDel(st.o, file_id),
                        !.d = FnDel(st.d, {file_id})]

RECURSIVE CleanupLoop(_, _, _)
CleanupLoop(st, items, t) ==
    IF items = <<>> THEN st
    ELSE CleanupLoop(CleanupOne(st, items[1], t), Tail(items), t)

\* async def cleanup_stale_chunks(), run at time t
cleanup_stale_chunks(st, t) == CleanupLoop(st, st.o, t)

\* the body of the loop of persist_incomplete_files for one tracker item;
\* raised = TRUE when reading a chunk file raised FileNotFoundError
PersistOne(st, file_id, t) ==
    LET file_info == st.t[file_id]
    IN  IF file_info.status = "complete" THEN [st |-> st, raised |-> FALSE]
        ELSE IF HasRecent(file_info.chunks, t) \/ file_info.chunks = <<>>
        THEN [st |-> st, raised |-> FALSE]
        ELSE
        LET rd == ReadAll(SortByStart(file_info.chunks), st.c, <<>>)
            written == FnPut(st.u, IncompletePath(file_id), rd.data)
        IN  IF ~rd.ok
            THEN [st |-> [st EXCEPT !.u = written], raised |-> TRUE]
            ELSE [st |-> [st EXCEPT
                            !.u = written,
                            !.c = RemoveChunks(file_info.chunks, st.c),
                            !.t = FnDel(st.t, {file_id}),
                            !.o = SeqDel(st.o, file_id),
                            !.d = FnDel(st.d, {file_id})],
                  raised |-> FALSE]

RECURSIVE PersistLoop(_, _, _)
PersistLoop(st, items, t) ==
    IF items = <<>> THEN [st |-> st, raised |-> FALSE]
    ELSE LET r == PersistOne(st, items[1], t)
         IN  IF r.raised THEN r ELSE PersistLoop(r.st, Tail(items), t)

\* async def persist_incomplete_files(), run at time t
persist_incomplete_files(st, t) == PersistLoop(st, st.o, t)

\* async def get_file(file_id, return_metadata=True): the artifact and its
\* size, or NotFound
get_file(u, file_id) ==
    IF OutputPath(file_id) \notin DOMAIN u
    THEN [found |-> FALSE, data |-> <<>>, file_size |-> 0]
    ELSE [found |-> TRUE, data |-> u[OutputPath(file_id)],
          file_size |-> Len(u[OutputPath(file_id)])]

(* ------------------------------- main.py ------------------------------- *)
Response(code, detail, next_byte, blocks) ==
    [code |-> code, detail |-> detail, next_byte |-> next_byte,
     blocks |-> blocks]

NextByteAfter(end_byte) == end_byte + 1

\* async def upload_file_chunk(file_id, request, content_range), for a
\* Content-Range header "bytes start-end/total" (total "*" is None) and the
\* request body raw_data, run at time t
upload_file_chunk(st, file_id, start_byte, end_byte, total_size, raw_data, t) ==
    IF Len(raw_data) < HEADER_SIZE
    THEN [st |-> st, resp |-> Response(400, "Invalid chunk format", None, <<>>)]
    ELSE
    LET header == SubSeq(raw_data, 1, HEADER_SIZE)
        chunk_data == SubSeq(raw_data, HEADER_SIZE + 1, Len(raw_data))
        checksum == calculate_checksum(chunk_data)
    IN  IF checksum # header[HEADER_SIZE]
        THEN [st |-> st,
              resp |-> Response(400, "Checksum verification failed", None, <<>>)]
        ELSE
        LET r == save_chunk(st, file_id, start_byte, end_byte, chunk_data,
                            checksum, total_size, t)
        IN  IF r.result = "ok"
            THEN [st |-> r.st,
                  resp |-> Response(200, "Chunk received successfully",
                                    NextByteAfter(end_byte), <<>>)]
            ELSE [st |-> r.st, resp |-> Response(500, r.result, None, <<>>)]

\* upload_file_chunk for a request whose chunk file cannot be written
upload_file_chunk_write_fails(st, file_id, start_byte, end_byte, total_size, raw_data, t, written) ==
    IF Len(raw_data) < HEADER_SIZE
    THEN [st |-> st, resp |-> Response(400, "Invalid chunk format", None, <<>>)]
    ELSE
    LET header == SubSeq(raw_data, 1, HEADER_SIZE)
        chunk_data == SubSeq(raw_data, HEADER_SIZE + 1, Len(raw_data))
        checksum == calculate_checksum(chunk_data)
    IN  IF checksum # header[HEADER_SIZE]
        THEN [st |-> st,
              resp |-> Response(400, "Checksum verification failed", None, <<>>)]
        ELSE
        LET r == save_chunk_write_fails(st, file_id, start_byte, end_byte,
                                        chunk_data, checksum, total_size, t,
                                        written)
        IN  [st |-> r.st, resp |-> Response(500, r.result, None, <<>>)]

\* def file_iterator(): the blocks read from offset pos while remaining > 0
RECURSIVE file_iterator(_, _, _)
file_iterator(data, pos, remaining) ==
    IF remaining <= 0 THEN <<>>
    ELSE LET bytes_to_read == Min(BLOCK_SIZE, remaining)
             blk == SubSeq(data, pos + 1, Min(pos + bytes_to_read, Len(data)))
         IN  IF blk = <<>> THEN <<>>
             ELSE <<blk>> \o file_iterator(data, pos + Len(blk),
                                           remaining - Len(blk))

download_file_gt(u, file_id, start_byte, end_byte) ==
    LET g == get_file(u, file_id)
    IN  IF ~g.found THEN Response(500, "FileNotFoundError", None, <<>>)
        ELSE IF start_byte > g.file_size \/ end_byte > g.file_size
        THEN Response(416, "Requested range not satisfiable", None, <<>>)
        ELSE Response(206, "", None,
                      file_iterator(g.data, start_byte,
                                    end_byte - start_byte + 1))

\* async def download_file(file_id, request) with a header
\* "Range: bytes=start-end"
download_file(u, file_id, start_byte, end_byte) ==
    LET g == get_file(u, file_id)
    IN  IF ~g.found THEN Response(500, "FileNotFoundError", None, <<>>)
        ELSE IF start_byte >= g.file_size \/ end_byte >= g.file_size
        THEN Response(416, "Requested range not satisfiable", None, <<>>)
        ELSE Response(206, "", None,
                      file_iterator(g.data, start_byte,
                                    end_byte - start_byte + 1))

(* ------------------------------- actions ------------------------------- *)
Cur == Store(upload_tracker, key_order, chunk_dir, upload_dir, delivered)

Install(st) ==
    /\ upload_tracker' = st.t
    /\ key_order' = st.o
    /\ chunk_dir' = st.c
    /\ upload_dir' = st.u
    /\ delivered' = st.d

Request(op, file_id, start_byte, end_byte, total_size, raw_data, resp) ==
    [op |-> op, file_id |-> file_id, start |-> start_byte, end |-> end_byte,
     total_size |-> total_size, raw_data |-> raw_data, resp |-> resp]

NoResponse == Response(0, "", None, <<>>)

\* POST /upload/{file_id}; cap bounds the chunk list of one session
Upload(file_id, start_byte, end_byte, total_size, raw_data, cap) ==
    /\ file_id \in DOMAIN upload_tracker
          => Len(upload_tracker[file_id].chunks) < cap
    /\ LET r == upload_file_chunk(Cur, file_id, start_byte, end_byte,
                                  total_size, raw_data, now)
       IN  /\ Install(r.st)
           /\ last' = Request("upload", file_id, start_byte, end_byte,
                              total_size, raw_data, r.resp)
    /\ UNCHANGED <<now, wake_at, task, running>>

\* GET /download/{file_id} with a Range header
Download(file_id, start_byte, end_byte) ==
    /\ last' = Request("download", file_id, start_byte, end_byte, None, <<>>,
                       download_file(upload_dir, file_id, start_byte, end_byte))
    /\ UNCHANGED <<upload_tracker, key_order, chunk_dir, upload_dir,
                   delivered, now, wake_at, task, running>>

\* the clock advances by one tick
Tick ==
    /\ now < MaxTime
    /\ now' = now + 1
    /\ last' = Request("tick", "", None, None, None, <<>>, NoResponse)
    /\ UNCHANGED <<upload_tracker, key_order, chunk_dir, upload_dir,
                   delivered, wake_at, task, running>>

\* one round of periodic_cleanup: the sleep is over, cleanup_stale_chunks
\* runs, then persist_incomplete_files; an exception ends the task
PeriodicCleanup ==
    /\ wake_at # None
    /\ now >= wake_at
    /\ LET st1 == cleanup_stale_chunks(Cur, now)
           r == persist_incomplete_files(st1, now)
       IN  /\ Install(r.st)
           /\ wake_at' = IF r.raised THEN None ELSE now + SLEEP_TICKS
    /\ last' = Request("periodic", "", None, None, None, <<>>, NoResponse)
    /\ UNCHANGED <<now, task, running>>

\* POST /cleanup: the background tasks persist_incomplete_files, then
\* cleanup_stale_chunks, run in this order; an exception in the first
\* keeps the second from running
TriggerCleanup ==
    /\ LET r == persist_incomplete_files(Cur, now)
       IN  Install(IF r.raised THEN r.st
                   ELSE cleanup_stale_chunks(r.st, now))
    /\ last' = Request("cleanup", "", None, None, None, <<>>,
                       Response(200, "Cleanup process started", None, <<>>))
    /\ UNCHANGED <<now, wake_at, task, running>>

\* POST /upload/{file_id} while the chunk directory cannot be written
\* (disk full, permissions): the write of the chunk file raises OSError
FailedUpload(file_id, start_byte, end_byte, total_size, raw_data, written) ==
    /\ LET r == upload_file_chunk_write_fails(Cur, file_id, start_byte,
                                              end_byte, total_size, raw_data,
                                              now, written)
       IN  /\ Install(r.st)
           /\ last' = Request("upload", file_id, start_byte, end_byte,
                              total_size, raw_data, r.resp)
    /\ UNCHANGED <<now, wake_at, task, running>>

\* the environment loses a chunk file (removed or unreadable), so that the
\* next open(chunk["path"], "rb") raises FileNotFoundError
LoseFragment(path) ==
    /\ path \in DOMAIN chunk_dir
    /\ chunk_dir' = FnDel(chunk_dir, {path})
    /\ last' = Request("lose", path[2], path[3], path[4], None, <<>>, NoResponse)
    /\ UNCHANGED <<upload_tracker, key_order, upload_dir, delivered, now,
                   wake_at, task, running>>

\* the coroutines followed step by step: two upload requests and the sweeps
Uploaders == {"u1", "u2"}
Sweeper == "sw"
Tasks == Uploaders \cup {Sweeper}
NoTask == "none"

\* a coroutine that has not started: position and local variables
IdleTask ==
    [pc |-> "idle", file_id |-> "", start |-> None, end |-> None,
     total_size |-> None, raw_data |-> <<>>, timestamp |-> None,
     seen |-> <<>>, chunks |-> <<>>, items |-> <<>>, plan |-> <<>>,
     resp |-> NoResponse]

Init ==
    /\ task = [t \in Tasks |-> IdleTask]
    /\ running = NoTask
    /\ upload_tracker = EmptyFn
    /\ key_order = <<>>
    /\ chunk_dir = EmptyFn
    /\ upload_dir = EmptyFn
    /\ delivered = EmptyFn
    /\ now = 0
    /\ wake_at = SLEEP_TICKS
    /\ last = Request("init", "", None, None, None, <<>>, NoResponse)

\* a request body whose header carries the checksum of its payload
Body(data) == Header(calculate_checksum(data)) \o data

\* ingestion for one transfer: every range (inverted ones included), every
\* declared total, every payload (whatever its length), a matching header
ValidUpload ==
    \E f \in FileIds, s \in Offsets, e \in Offsets, n \in TotalSizes,
       d \in Payloads : Upload(f, s, e, n, Body(d), MaxChunks)

Next == ValidUpload

Spec == Init /\ [][Next]_vars

\* well-formed chunks of a file: the payload of [s, e] is GoodPayload(s, e),
\* the declared total is unknown or the size of the file
FileSize == MaxOffset + 1
GoodTotals == {None, FileSize}

\* ingestion for one transfer with every header checksum byte and with
\* truncated bodies, while the clock advances
AnyBodyUpload ==
    \E f \in FileIds, s \in Offsets, e \in Offsets, n \in GoodTotals,
       b \in HeaderBytes, short \in BOOLEAN :
        /\ s <= e
        /\ LET raw == Header(b) \o GoodPayload(s, e)
           IN  Upload(f, s, e, n,
                      IF short THEN SubSeq(raw, 1, HEADER_SIZE - 1) ELSE raw,
                      SmallMaxChunks)

ChecksumNext == AnyBodyUpload \/ Tick

ChecksumSpec == Init /\ [][ChecksumNext]_vars

\* well-formed chunks
GoodUpload(files) ==
    \E f \in files, s \in Offsets, e \in Offsets, n \in GoodTotals :
        /\ s <= e
        /\ Upload(f, s, e, n, Body(GoodPayload(s, e)), SmallMaxChunks)

\* a transfer delivered as one chunk holding the whole file
WholeUpload(files) ==
    \E f \in files, n \in GoodTotals :
        Upload(f, 0, MaxOffset, n, Body(GoodPayload(0, MaxOffset)),
               WholeMaxChunks)

\* a transfer delivered in chunks of one byte
ByteUpload(files) ==
    \E f \in files, s \in Offsets, n \in GoodTotals :
        Upload(f, s, s, n, Body(GoodPayload(s, s)), SmallMaxChunks)

\* two transfers (one in one-byte chunks, one in whole-file chunks), the clock and
\* both sweeps
SweepNext ==
    \/ ByteUpload(FileIds)
    \/ WholeUpload(OtherFileIds)
    \/ Tick
    \/ PeriodicCleanup
    \/ TriggerCleanup

SweepSpec == Init /\ [][SweepNext]_vars

\* one transfer and range reads of its artifact
AnyDownload ==
    \E f \in FileIds, s \in 0..(MaxOffset + 2), e \in 0..(MaxOffset + 2) :
        Download(f, s, e)

ReadNext == GoodUpload(FileIds) \/ AnyDownload

ReadSpec == Init /\ [][ReadNext]_vars

\* two transfers in whole-file chunks, the clock, both sweeps, and storage
\* faults: chunk files that cannot be written and chunk files that are lost
FailedWholeUpload ==
    \E f \in FileIds, n \in GoodTotals,
       w \in {None} \cup (0..(FileSize - 1)) :
        FailedUpload(f, 0, MaxOffset, n, Body(GoodPayload(0, MaxOffset)), w)

AnyLoseFragment == \E p \in DOMAIN chunk_dir : LoseFragment(p)

FaultNext ==
    \/ WholeUpload(FileIds \cup OtherFileIds)
    \/ FailedWholeUpload
    \/ AnyLoseFragment
    \/ Tick
    \/ PeriodicCleanup
    \/ TriggerCleanup

FaultSpec == Init /\ [][FaultNext]_vars

(* ------------------- the handlers, one step at a time ------------------ *)
\* The single-threaded asyncio event loop runs one coroutine until it
\* reaches an await that suspends; an await on a coroutine that itself never
\* suspends (save_chunk, assemble_file, the two sweeps) returns without
\* giving the loop the chance to run anything else.
SuspendsAtEveryAwait(point) == TRUE

\* the awaits of the program at which the coroutine is suspended: reading
\* the request body, the sleep of periodic_cleanup, and sending the
\* response after which the background tasks run
Suspends(point) == point \in {"request.body", "asyncio.sleep", "send"}

\* the coroutine the loop is executing once t has passed the await at point
After(t, point) == IF Suspends(point) THEN NoTask ELSE t

\* the loop can execute the next step of t
CanRun(t) == running \in {NoTask, t}

SetTask(t, rec) == task' = [task EXCEPT ![t] = rec]

ChunkData(t) == SubSeq(task[t].raw_data, HEADER_SIZE + 1, Len(task[t].raw_data))

\* main.py:48-71: the request arrives, the Content-Range header is parsed,
\* the handler awaits the request body
BeginUpload(u, file_id, start_byte, end_byte, total_size, raw_data) ==
    /\ running = NoTask
    /\ task[u].pc = "idle"
    /\ SetTask(u, [IdleTask EXCEPT !.pc = "request.body",
                                   !.file_id = file_id,
                                   !.start = start_byte,
                                   !.end = end_byte,
                                   !.total_size = total_size,
                                   !.raw_data = raw_data])
    /\ running' = After(u, "request.body")
    /\ UNCHANGED <<upload_tracker, key_order, chunk_dir, upload_dir,
                   delivered, now, wake_at, last>>

\* main.py:71-94: the body has arrived; header size and checksum are
\* verified and save_chunk is awaited
ReadBody(u) ==
    /\ CanRun(u)
    /\ task[u].pc = "request.body"
    /\ IF Len(task[u].raw_data) < HEADER_SIZE
       THEN /\ SetTask(u, [task[u] EXCEPT
                    !.pc = "return",
                    !.resp = Response(400, "Invalid chunk format", None, <<>>)])
            /\ running' = u
       ELSE IF calculate_checksum(ChunkData(u)) # task[u].raw_data[HEADER_SIZE]
       THEN /\ SetTask(u, [task[u] EXCEPT
                    !.pc = "return",
                    !.resp = Response(400, "Checksum verification failed",
                                      None, <<>>)])
            /\ running' = u
       ELSE /\ SetTask(u, [task[u] EXCEPT !.pc = "save_chunk"])
            /\ running' = After(u, "save_chunk")
    /\ UNCHANGED <<upload_tracker, key_order, chunk_dir, upload_dir,
                   delivered, now, wake_at, last>>

\* storage.py:21-28: the timestamp is taken and the chunk file written
WriteChunk(u) ==
    /\ CanRun(u)
    /\ task[u].pc = "save_chunk"
    /\ chunk_dir' = FnPut(chunk_dir,
                          ChunkPath(task[u].file_id, task[u].start, task[u].end),
                          ChunkData(u))
    /\ SetTask(u, [task[u] EXCEPT !.pc = "register", !.timestamp = now])
    /\ running' = u
    /\ UNCHANGED <<upload_tracker, key_order, upload_dir, delivered, now,
                   wake_at, last>>

\* storage.py:30-45: the session is created if need be and the chunk record
\* appended
Register(u) ==
    /\ CanRun(u)
    /\ task[u].pc = "register"
    /\ LET r == register_chunk(Cur, task[u].file_id, task[u].start,
                               task[u].end, ChunkData(u),
                               calculate_checksum(ChunkData(u)),
                               task[u].total_size, task[u].timestamp)
       IN  Install([r EXCEPT !.c = chunk_dir])
    /\ SetTask(u, [task[u] EXCEPT !.pc = "check"])
    /\ running' = u
    /\ UNCHANGED <<now, wake_at, last>>

\* storage.py:47-51: the completion check on the chunk list, and the await
\* of assemble_file when it passes
Check(u) ==
    /\ CanRun(u)
    /\ task[u].pc = "check"
    /\ IF task[u].file_id \notin DOMAIN upload_tracker
       THEN /\ SetTask(u, [task[u] EXCEPT
                    !.pc = "return",
                    !.resp = Response(500, "KeyError", None, <<>>)])
            /\ running' = u
       ELSE IF NeedsAssembly(task[u].total_size,
                             upload_tracker[task[u].file_id].chunks)
       THEN /\ SetTask(u, [task[u] EXCEPT
                    !.pc = "assemble_file",
                    !.seen = upload_tracker[task[u].file_id].chunks])
            /\ running' = After(u, "assemble_file")
       ELSE /\ SetTask(u, [task[u] EXCEPT
                    !.pc = "return",
                    !.resp = Response(200, "Chunk received successfully",
                                      NextByteAfter(task[u].end), <<>>)])
            /\ running' = u
    /\ UNCHANGED <<upload_tracker, key_order, chunk_dir, upload_dir,
                   delivered, now, wake_at, last>>

\* storage.py:54-65: assemble_file sorts the chunk list into its local
\* variable chunks and compares the raw sum with the expected size
AsmSnapshot(u) ==
    /\ CanRun(u)
    /\ task[u].pc = "assemble_file"
    /\ IF task[u].file_id \notin DOMAIN upload_tracker
       THEN SetTask(u, [task[u] EXCEPT
                !.pc = "return",
                !.resp = Response(500, "ValueError", None, <<>>)])
       ELSE LET file_info == upload_tracker[task[u].file_id]
                chunks == SortByStart(file_info.chunks)
            IN  IF file_info.total_size = None
                      \/ SumLen(chunks) < file_info.total_size
                THEN SetTask(u, [task[u] EXCEPT
                         !.pc = "return",
                         !.resp = Response(200, "Chunk received successfully",
                                           NextByteAfter(task[u].end), <<>>)])
                ELSE SetTask(u, [task[u] EXCEPT !.pc = "asm_write",
                                                !.chunks = chunks])
    /\ running' = u
    /\ UNCHANGED <<upload_tracker, key_order, chunk_dir, upload_dir,
                   delivered, now, wake_at, last>>

\* storage.py:67-73: the artifact is opened for writing and the chunk files
\* are copied into it
AsmWrite(u) ==
    /\ CanRun(u)
    /\ task[u].pc = "asm_write"
    /\ LET rd == ReadAll(task[u].chunks, chunk_dir, <<>>)
       IN  /\ upload_dir' = FnPut(upload_dir, OutputPath(task[u].file_id),
                                  rd.data)
           /\ IF rd.ok
              THEN SetTask(u, [task[u] EXCEPT !.pc = "asm_finish"])
              ELSE SetTask(u, [task[u] EXCEPT
                       !.pc = "return",
                       !.resp = Response(500, "FileNotFoundError", None, <<>>)])
    /\ running' = u
    /\ UNCHANGED <<upload_tracker, key_order, chunk_dir, delivered, now,
                   wake_at, last>>

\* storage.py:75-85: the chunk files are removed and the status is set
AsmFinish(u) ==
    /\ CanRun(u)
    /\ task[u].pc = "asm_finish"
    /\ chunk_dir' = RemoveChunks(task[u].chunks, chunk_dir)
    /\ IF task[u].file_id \in DOMAIN upload_tracker
       THEN /\ upload_tracker' = [upload_tracker EXCEPT
                                     ![task[u].file_id].status = "complete"]
            /\ SetTask(u, [task[u] EXCEPT
                    !.pc = "return",
                    !.resp = Response(200, "Chunk received successfully",
                                      NextByteAfter(task[u].end), <<>>)])
       ELSE /\ UNCHANGED upload_tracker
            /\ SetTask(u, [task[u] EXCEPT
                    !.pc = "return",
                    !.resp = Response(500, "KeyError", None, <<>>)])
    /\ running' = u
    /\ UNCHANGED <<key_order, upload_dir, delivered, now, wake_at, last>>

\* main.py:96: the handler returns its response
Return(u) ==
    /\ CanRun(u)
    /\ task[u].pc = "return"
    /\ last' = Request("upload", task[u].file_id, task[u].start, task[u].end,
                       task[u].total_size, task[u].raw_data, task[u].resp)
    /\ SetTask(u, [task[u] EXCEPT !.pc = "done"])
    /\ running' = NoTask
    /\ UNCHANGED <<upload_tracker, key_order, chunk_dir, upload_dir,
                   delivered, now, wake_at>>

\* main.py:159-167: POST /cleanup queues persist_incomplete_files and
\* cleanup_stale_chunks and sends its response
BeginTrigger ==
    /\ running = NoTask
    /\ task[Sweeper].pc = "idle"
    /\ SetTask(Sweeper, [IdleTask EXCEPT
            !.pc = "call",
            !.plan = <<"persist_incomplete_files", "cleanup_stale_chunks">>])
    /\ last' = Request("cleanup", "", None, None, None, <<>>,
                       Response(200, "Cleanup process started", None, <<>>))
    /\ running' = After(Sweeper, "send")
    /\ UNCHANGED <<upload_tracker, key_order, chunk_dir, upload_dir,
                   delivered, now, wake_at>>

\* background.py:5-9: the sleep of periodic_cleanup is over
BeginPeriodic ==
    /\ running = NoTask
    /\ task[Sweeper].pc = "idle"
    /\ wake_at # None
    /\ now >= wake_at
    /\ wake_at' = now + SLEEP_TICKS
    /\ SetTask(Sweeper, [IdleTask EXCEPT
            !.pc = "call",
            !.plan = <<"cleanup_stale_chunks", "persist_incomplete_files">>])
    /\ last' = Request("periodic", "", None, None, None, <<>>, NoResponse)
    /\ running' = After(Sweeper, "asyncio.sleep")
    /\ UNCHANGED <<upload_tracker, key_order, chunk_dir, upload_dir,
                   delivered, now>>

\* storage.py:131-135, 156-160: the next sweep function is awaited; it
\* reads the clock and takes list(upload_tracker.items())
SweepCall ==
    /\ CanRun(Sweeper)
    /\ task[Sweeper].pc = "call"
    /\ IF task[Sweeper].plan = <<>>
       THEN /\ SetTask(Sweeper, IdleTask)
            /\ running' = NoTask
       ELSE /\ SetTask(Sweeper, [task[Sweeper] EXCEPT !.pc = "item",
                                                      !.timestamp = now,
                                                      !.items = key_order])
            /\ running' = After(Sweeper, Head(task[Sweeper].plan))
    /\ UNCHANGED <<upload_tracker, key_order, chunk_dir, upload_dir,
                   delivered, now, wake_at, last>>

\* storage.py:135-145, 160-170: the loop takes the next item and decides
\* from its status and its chunk list whether the session is reclaimed
SweepItem ==
    /\ CanRun(Sweeper)
    /\ task[Sweeper].pc = "item"
    /\ LET items == task[Sweeper].items
       IN  IF items = <<>>
           THEN SetTask(Sweeper, [task[Sweeper] EXCEPT
                    !.pc = "call", !.plan = Tail(@)])
           ELSE IF \/ items[1] \notin DOMAIN upload_tracker
                   \/ upload_tracker[items[1]].status = "complete"
                   \/ HasRecent(upload_tracker[items[1]].chunks,
                                task[Sweeper].timestamp)
                   \/ /\ Head(task[Sweeper].plan) = "persist_incomplete_files"
                      /\ upload_tracker[items[1]].chunks = <<>>
           THEN SetTask(Sweeper, [task[Sweeper] EXCEPT !.items = Tail(@)])
           ELSE SetTask(Sweeper, [task[Sweeper] EXCEPT
                    !.pc = "reclaim",
                    !.file_id = items[1],
                    !.seen = upload_tracker[items[1]].chunks])
    /\ running' = Sweeper
    /\ UNCHANGED <<upload_tracker, key_order, chunk_dir, upload_dir,
                   delivered, now, wake_at, last>>

\* storage.py:146-154, 171-187: the session is persisted or its chunk files
\* removed, and it is deleted from the tracker; an exception ends the sweep
\* and drops what was still to run
SweepReclaim ==
    /\ CanRun(Sweeper)
    /\ task[Sweeper].pc = "reclaim"
    /\ LET f == task[Sweeper].file_id
           abort == [task[Sweeper] EXCEPT !.pc = "call", !.plan = <<>>,
                                          !.items = <<>>]
           next == [task[Sweeper] EXCEPT !.pc = "item", !.items = Tail(@)]
       IN  IF f \notin DOMAIN upload_tracker
           THEN /\ SetTask(Sweeper, abort)
                /\ UNCHANGED <<upload_tracker, key_order, chunk_dir,
                               upload_dir, delivered>>
           ELSE IF Head(task[Sweeper].plan) = "persist_incomplete_files"
           THEN LET r == PersistOne(Cur, f, task[Sweeper].timestamp)
                IN  /\ Install(r.st)
                    /\ SetTask(Sweeper, IF r.raised THEN abort ELSE next)
           ELSE /\ Install(CleanupOne(Cur, f, task[Sweeper].timestamp))
                /\ SetTask(Sweeper, next)
    /\ running' = Sweeper
    /\ UNCHANGED <<now, wake_at, last>>

\* two upload requests for one transfer and the sweeps, interleaved as the
\* event loop interleaves them, while the clock advances
ConcNext ==
    \/ \E u \in Uploaders, f \in FileIds, s \in Offsets, e \in Offsets,
          n \in GoodTotals :
           /\ s <= e
           /\ BeginUpload(u, f, s, e, n, Body(GoodPayload(s, e)))
    \/ \E u \in Uploaders : ReadBody(u)
    \/ \E u \in Uploaders : WriteChunk(u)
    \/ \E u \in Uploaders : Register(u)
    \/ \E u \in Uploaders : Check(u)
    \/ \E u \in Uploaders : AsmSnapshot(u)
    \/ \E u \in Uploaders : AsmWrite(u)
    \/ \E u \in Uploaders : AsmFinish(u)
    \/ \E u \in Uploaders : Return(u)
    \/ BeginTrigger
    \/ BeginPeriodic
    \/ SweepCall
    \/ SweepItem
    \/ SweepReclaim
    \/ Tick

ConcSpec == Init /\ [][ConcNext]_vars

TypeOK ==
    /\ DOMAIN upload_tracker = Range(key_order)
    /\ DOMAIN delivered = DOMAIN upload_tracker
    /\ now \in 0..MaxTime

(* ------------------------- coverage of a session ----------------------- *)
\* the byte offsets covered by the union of the chunk ranges
Covered(chunks) ==
    UNION {chunks[i].start..chunks[i].end : i \in DOMAIN chunks}

\* the lowest offset that is not in S
LowestMissing(S) ==
    CHOOSE n \in 0..(MaxOffset + 1) :
        n \notin S /\ \A m \in 0..(n - 1) : m \in S

\* the chunk ranges are proper, pairwise disjoint and tile [0, n-1]
Tiles(chunks, n) ==
    /\ \A i \in DOMAIN chunks : chunks[i].start <= chunks[i].end
    /\ \A i, j \in DOMAIN chunks :
          i # j => (chunks[i].start..chunks[i].end)
                      \cap (chunks[j].start..chunks[j].end) = {}
    /\ Covered(chunks) = 0..(n - 1)

\* every tracked chunk of f came with a payload as long as its range
PayloadsFit(f) ==
    \A i \in DOMAIN upload_tracker[f].chunks :
        Len(delivered[f][i]) =
            upload_tracker[f].chunks[i].end - upload_tracker[f].chunks[i].start + 1

\* the payload byte delivered for offset off of f (by the chunk covering it)
DeliveredByte(f, off) ==
    LET chunks == upload_tracker[f].chunks
        i == CHOOSE k \in DOMAIN chunks :
                 chunks[k].start <= off /\ off <= chunks[k].end
    IN  delivered[f][i][off - chunks[i].start + 1]

Status(f) == get_file_status(upload_tracker, f)

RECURSIVE Flatten(_)
Flatten(blocks) ==
    IF blocks = <<>> THEN <<>> ELSE blocks[1] \o Flatten(Tail(blocks))

IsSweep(op) == op \in {"periodic", "cleanup"}

StoreVars == <<upload_tracker, key_order, chunk_dir, upload_dir>>

(* -------------------------------- claims ------------------------------- *)
\* C1: for a session with declared total size N, getStatus reports
\* `complete` if and only if the union of the received ranges is exactly
\* [0, N-1].
C1_CompleteIffCovered ==
    \A f \in DOMAIN upload_tracker :
        upload_tracker[f].total_size # None =>
            (Status(f).status = "complete"
                <=> Covered(upload_tracker[f].chunks)
                        = 0..(upload_tracker[f].total_size - 1))

\* C2: received_bytes reported by getStatus is the number of distinct byte
\* offsets covered by the union of the chunk ranges.
C2_ReceivedIsCoverage ==
    \A f \in DOMAIN upload_tracker :
        Status(f).received_bytes = Cardinality(Covered(upload_tracker[f].chunks))

\* the request recorded in r is an upload that passed validation and repeats
\* a chunk (same range, same payload) the session of its transfer holds
IsReingest(r) ==
    /\ r.op = "upload"
    /\ r.resp.code # 400
    /\ r.file_id \in DOMAIN upload_tracker
    /\ \E i \in DOMAIN upload_tracker[r.file_id].chunks :
          /\ upload_tracker[r.file_id].chunks[i].start = r.start
          /\ upload_tracker[r.file_id].chunks[i].end = r.end
          /\ delivered[r.file_id][i]
                = SubSeq(r.raw_data, HEADER_SIZE + 1, Len(r.raw_data))

\* C3: re-ingesting a chunk identical to one already accepted leaves the
\* received byte count unchanged and adds no further fragment record.
C3_ReingestIdempotent ==
    [][IsReingest(last') =>
          /\ get_file_status(upload_tracker', last'.file_id).received_bytes
                = Status(last'.file_id).received_bytes
          /\ Len(upload_tracker'[last'.file_id].chunks)
                = Len(upload_tracker[last'.file_id].chunks)]_vars

\* C4: when the chunks of a complete session are pairwise disjoint and tile
\* [0, N-1] (each with a payload as long as its range), byte i of the
\* artifact is the payload byte delivered for offset i, whatever the order
\* in which the chunks arrived.
C4_ArtifactInByteOrder ==
    \A f \in DOMAIN upload_tracker :
        LET info == upload_tracker[f]
        IN  (/\ info.status = "complete"
             /\ info.total_size # None
             /\ Tiles(info.chunks, info.total_size)
             /\ PayloadsFit(f))
            => /\ OutputPath(f) \in DOMAIN upload_dir
               /\ upload_dir[OutputPath(f)]
                     = [k \in 1..info.total_size |-> DeliveredByte(f, k - 1)]

\* a complete session whose two chunks tile the file and arrived in
\* descending order of their ranges, with the artifact assembled
C4_Witness ==
    \E f \in DOMAIN upload_tracker :
        /\ upload_tracker[f].status = "complete"
        /\ Len(upload_tracker[f].chunks) >= 2
        /\ upload_tracker[f].chunks[1].start > upload_tracker[f].chunks[2].start
        /\ Tiles(upload_tracker[f].chunks, upload_tracker[f].total_size)
        /\ PayloadsFit(f)
        /\ Len(upload_dir[OutputPath(f)]) = upload_tracker[f].total_size

\* the request recorded in r is an upload whose trailing header byte differs
\* from sum(payload) mod 256
BadChecksum(r) ==
    /\ r.op = "upload"
    /\ Len(r.raw_data) >= HEADER_SIZE
    /\ r.raw_data[HEADER_SIZE]
          # SumBytes(SubSeq(r.raw_data, HEADER_SIZE + 1, Len(r.raw_data))) % 256

\* C5: a chunk whose trailing header checksum byte differs from
\* sum(payload) mod 256 is rejected, and the rejection leaves the tracker,
\* the fragments and the artifacts unchanged.
C5_BadChecksumRejected ==
    [][BadChecksum(last') =>
          /\ last'.resp.code = 400
          /\ UNCHANGED StoreVars]_vars

\* a chunk with a wrong checksum byte was just rejected for a transfer that
\* has a session, at a later time than the session's last update
C5_Witness ==
    /\ BadChecksum(last)
    /\ last.resp.code = 400
    /\ last.file_id \in DOMAIN upload_tracker
    /\ upload_tracker[last.file_id].last_updated < now

\* f is a non-complete session with a fragment inside the staleness window
\* at time t
RecentlyActive(f, t) ==
    /\ f \in DOMAIN upload_tracker
    /\ upload_tracker[f].status # "complete"
    /\ \E i \in DOMAIN upload_tracker[f].chunks :
          upload_tracker[f].chunks[i].timestamp > t - STALE_THRESHOLD

\* C6: a non-complete session with at least one fragment inside the
\* staleness window is left unchanged by every reclamation pass: its record,
\* its fragment list and its fragment blobs survive.
C6_RecentSessionSurvives ==
    [][IsSweep(last'.op) =>
          \A f \in DOMAIN upload_tracker :
              RecentlyActive(f, now) =>
                  /\ f \in DOMAIN upload_tracker'
                  /\ upload_tracker'[f] = upload_tracker[f]
                  /\ \A i \in DOMAIN upload_tracker[f].chunks :
                        LET p == upload_tracker[f].chunks[i].path
                        IN  /\ p \in DOMAIN chunk_dir'
                            /\ chunk_dir'[p] = chunk_dir[p]]_vars

\* a sweep has just run and left in place a session that holds a fragment
\* older than the window next to one inside it
C6_Witness ==
    /\ IsSweep(last.op)
    /\ \E f \in DOMAIN upload_tracker :
          /\ RecentlyActive(f, now)
          /\ \E i \in DOMAIN upload_tracker[f].chunks :
                /\ upload_tracker[f].chunks[i].timestamp <= now - STALE_THRESHOLD
                /\ upload_tracker[f].chunks[i].path \in DOMAIN chunk_dir

\* C7: after a reclamation sweep, every session that was non-complete, stale
\* and of known total size at sweep time has a partial artifact whose size
\* is the session's merged coverage at sweep time.
C7_StaleSessionPersisted ==
    [][IsSweep(last'.op) =>
          \A f \in DOMAIN upload_tracker :
              (/\ upload_tracker[f].status # "complete"
               /\ ~RecentlyActive(f, now)
               /\ upload_tracker[f].total_size # None)
              => /\ IncompletePath(f) \in DOMAIN upload_dir'
                 /\ Len(upload_dir'[IncompletePath(f)])
                       = Cardinality(Covered(upload_tracker[f].chunks))]_vars

\* C8: a range read [start, end] of an artifact of size S fails with 416
\* when start >= S or end >= S; otherwise the blocks are non-empty, at most
\* a block long, and concatenate to bytes start..end of the artifact
\* (end-start+1 bytes for start <= end), so [0, S-1] reads the artifact.
C8_RangeRead ==
    (last.op = "download" /\ OutputPath(last.file_id) \in DOMAIN upload_dir) =>
        LET artifact == upload_dir[OutputPath(last.file_id)]
            S == Len(artifact)
            read == Flatten(last.resp.blocks)
        IN  IF last.start >= S \/ last.end >= S
            THEN last.resp.code = 416 /\ last.resp.blocks = <<>>
            ELSE /\ last.resp.code = 206
                 /\ \A i \in DOMAIN last.resp.blocks :
                       Len(last.resp.blocks[i]) \in 1..BLOCK_SIZE
                 /\ read = SubSeq(artifact, last.start + 1, last.end + 1)
                 /\ last.start <= last.end => Len(read) = last.end - last.start + 1
                 /\ (last.start = 0 /\ last.end = S - 1) => read = artifact

\* a range read that took more than one block and returned the whole of an
\* artifact
C8_Witness ==
    /\ last.op = "download"
    /\ last.resp.code = 206
    /\ Len(last.resp.blocks) >= 2
    /\ Flatten(last.resp.blocks) = upload_dir[OutputPath(last.file_id)]

\* the request recorded in r is an upload that declares a total size other
\* than the one recorded for the session of its transfer
SizeConflict(r) ==
    /\ r.op = "upload"
    /\ r.file_id \in DOMAIN upload_tracker
    /\ upload_tracker[r.file_id].total_size # None
    /\ r.total_size # None
    /\ r.total_size # upload_tracker[r.file_id].total_size

\* C9: a recorded total size never changes for the life of the session, and
\* a later chunk declaring a different total size is rejected without
\* changing the session state.
C9_TotalSizeImmutable ==
    [][/\ \A f \in DOMAIN upload_tracker \cap DOMAIN upload_tracker' :
             upload_tracker[f].total_size # None =>
                 upload_tracker'[f].total_size = upload_tracker[f].total_size
       /\ SizeConflict(last') =>
             /\ last'.resp.code = 400
             /\ UNCHANGED StoreVars]_vars

\* C10: the next-byte value returned by a successful chunk ingestion is the
\* lowest byte offset not covered by the session's merged coverage.
C10_NextByteIsLowestGap ==
    (last.op = "upload" /\ last.resp.code = 200) =>
        last.resp.next_byte
            = LowestMissing(Covered(upload_tracker[last.file_id].chunks))


\* C11: once a session is complete, a further invocation of assembly (such
\* as the one a chunk ingested after completion triggers) succeeds and
\* leaves the artifact's bytes and the session's status unchanged.
C11_AssemblyOnce ==
    [][\A f \in DOMAIN upload_tracker :
          upload_tracker[f].status = "complete" =>
              /\ f \in DOMAIN upload_tracker'
              /\ upload_tracker'[f].status = "complete"
              /\ OutputPath(f) \in DOMAIN upload_dir'
              /\ upload_dir'[OutputPath(f)] = upload_dir[OutputPath(f)]
              /\ (last'.op = "upload" /\ last'.file_id = f
                     /\ last'.resp.code # 400)
                 => last'.resp.code = 200]_vars

\* C12: while the total size N of a session is known, every chunk record
\* lies inside [0, N-1], so the covered bytes never exceed N.
C12_CoverageWithinTotal ==
    \A f \in DOMAIN upload_tracker :
        upload_tracker[f].total_size # None =>
            /\ Covered(upload_tracker[f].chunks)
                  \subseteq 0..(upload_tracker[f].total_size - 1)
            /\ Cardinality(Covered(upload_tracker[f].chunks))
                  <= upload_tracker[f].total_size

\* C13: a chunk with start > end is rejected: no session state holds a range
\* with start > end, and such a request is answered with an error that
\* leaves tracker and fragments unchanged.
C13_NoInvertedRange ==
    /\ \A f \in DOMAIN upload_tracker :
          \A i \in DOMAIN upload_tracker[f].chunks :
              upload_tracker[f].chunks[i].start <= upload_tracker[f].chunks[i].end
    /\ (last.op = "upload" /\ last.start > last.end) => last.resp.code = 400

\* C15: a complete session holds no fragment entries and no fragment blob
\* of it remains in fragment storage.
C15_CompleteHasNoFragments ==
    \A f \in DOMAIN upload_tracker :
        upload_tracker[f].status = "complete" =>
            /\ upload_tracker[f].chunks = <<>>
            /\ Status(f).chunks = <<>>
            /\ \A p \in DOMAIN chunk_dir : p[2] # f

\* f is a non-complete session without a fragment inside the staleness
\* window at time t
Stale(f, t) ==
    /\ f \in DOMAIN upload_tracker
    /\ upload_tracker[f].status # "complete"
    /\ ~RecentlyActive(f, t)

\* C16: a stale, non-complete session of unknown total size is discarded by
\* the sweep without a partial artifact being written: its record and its
\* fragments are gone and the sweep created or changed no artifact for it.
C16_UnknownSizeDiscarded ==
    [][IsSweep(last'.op) =>
          \A f \in DOMAIN upload_tracker :
              (Stale(f, now) /\ upload_tracker[f].total_size = None) =>
                  /\ f \notin DOMAIN upload_tracker'
                  /\ \A p \in DOMAIN chunk_dir' : p[2] # f
                  /\ \A q \in {OutputPath(f), IncompletePath(f)} :
                        IF q \in DOMAIN upload_dir
                        THEN q \in DOMAIN upload_dir'
                                /\ upload_dir'[q] = upload_dir[q]
                        ELSE q \notin DOMAIN upload_dir']_vars

\* C19: the covered intervals a session reports through getStatus are
\* sorted by start and pairwise neither overlapping nor adjacent.
C19_IntervalsMerged ==
    \A f \in DOMAIN upload_tracker :
        LET iv == Status(f).chunks
        IN  \A i \in 1..(Len(iv) - 1) : iv[i].end + 1 < iv[i + 1].start

WriteFailed(r) == r.op = "upload" /\ r.resp.detail = "OSError"

\* C14: when the fragment write of an ingestion fails, the session record
\* (existence, fragment list, total size, last_updated) is exactly what it
\* was before the call.
C14_FailedWriteLeavesSession ==
    [][WriteFailed(last') =>
          /\ upload_tracker' = upload_tracker
          /\ key_order' = key_order]_vars

\* a fragment write has just failed for a transfer with a session that was
\* last updated at an earlier time, leaving a truncated file for a range the
\* session holds
C14_Witness ==
    /\ WriteFailed(last)
    /\ last.file_id \in DOMAIN upload_tracker
    /\ upload_tracker[last.file_id].last_updated < now
    /\ \E i \in DOMAIN upload_tracker[last.file_id].chunks :
          LET c == upload_tracker[last.file_id].chunks[i]
          IN  c.path \in DOMAIN chunk_dir /\ chunk_dir[c.path] = <<>>

\* every fragment file of session f is in the chunk directory
FragmentsPresent(f) ==
    \A i \in DOMAIN upload_tracker[f].chunks :
        upload_tracker[f].chunks[i].path \in DOMAIN chunk_dir

\* C18: a sweep reclaims every stale non-complete session whose fragments
\* are in place, also when another session of the registry fails in that
\* pass because one of its fragment files is missing.
C18_SweepIsolatesFailure ==
    [][IsSweep(last'.op) =>
          \A g \in DOMAIN upload_tracker :
              (Stale(g, now) /\ FragmentsPresent(g))
                  => g \notin DOMAIN upload_tracker']_vars


\* t is between its reading of the chunk list of a session (the completion
\* check of save_chunk, the staleness check of a sweep) and the end of what
\* it does to the session (assembly, reclamation)
InRegion(t) ==
    task[t].pc \in {"assemble_file", "asm_write", "asm_finish", "reclaim"}

\* C17: completion detection, assembly and reclamation of a session are
\* atomic with respect to ingestion: while an upload is between its
\* completion check and the end of its assembly, or a sweep between its
\* staleness check and the reclamation of a session, the session is there
\* and its chunk list is the one that was read.
C17_AssemblyAndSweepAtomic ==
    \A t \in Tasks :
        InRegion(t) =>
            /\ task[t].file_id \in DOMAIN upload_tracker
            /\ upload_tracker[task[t].file_id].chunks = task[t].seen

\* an upload is copying the fragments into the artifact while another
\* upload for the same transfer waits for its request body and a sweep is
\* queued
C17_Witness ==
    \E u, v \in Uploaders :
        /\ task[u].pc = "asm_write"
        /\ task[v].pc = "request.body"
        /\ task[v].file_id = task[u].file_id
        /\ task[Sweeper].pc = "call"

\* a sweep is about to reclaim a session while an upload for it waits for
\* its request body
C17_SweepWitness ==
    \E v \in Uploaders :
        /\ task[Sweeper].pc = "reclaim"
        /\ task[v].pc = "request.body"
        /\ task[v].file_id = task[Sweeper].file_id

====
